---------------------------- MODULE Spec2Model ----------------------------
(***************************************************************************)
(* A model of the twitchwh EventSub webhook client:                        *)
(*   - Client.AddSubscription / addSubscription and the rendezvous on the  *)
(*     unbuffered channel verifiedSubscriptions (Spec, FairSpec);          *)
(*   - Client.Handler, the inbound callback dispatcher, with the default   *)
(*     HandledEventsChecker (HandlerSpec);                                 *)
(*   - Client.RemoveSubscription and fetchSubscriptions with its three     *)
(*     wrappers (RegistrySpec).                                            *)
(***************************************************************************)
EXTENDS Integers, Sequences, FiniteSets, TLC

VARIABLES
    token,          \* c.token: generation number of the current credential
    create,         \* one record per concurrent AddSubscription call
    senders,        \* goroutines of Handler blocked in "verifiedSubscriptions <- id"
    published,      \* verification callbacks handled so far, per subscription ID
    req,            \* one record per inbound callback served by Handler
    handledEvents,  \* DefaultHandledEventsChecker.handledEvents
    started,        \* goroutines "go handler(payload.Event)" started, per message ID
    revoked,        \* calls of c.OnRevocation
    onRevocation,   \* whether c.OnRevocation is set
    reg,            \* the RemoveSubscription or fetchSubscriptions call in progress
    mu,             \* DefaultHandledEventsChecker.mu
    callers,        \* the calls of IsHandled and MarkHandled in progress, per caller
    marked          \* message IDs whose MarkHandled has begun, and has returned

vars == <<token, create, senders, published, req, handledEvents, started, revoked,
          onRevocation, reg, mu, callers, marked>>
hVars == <<req, handledEvents, started, revoked, onRevocation>>
gVars == <<mu, callers, marked>>

----------------------------------------------------------------------------
(* Bounds *)

MaxCreates == 2
MaxConfirm == 2

(* Program constants *)

\* time.After(10 * time.Second)
VerificationTimeout == 10
\* the clock is observed once per timeout period
TickStep == VerificationTimeout
\* a call's waiting time is followed until one timeout period is over
MaxWait == VerificationTimeout

----------------------------------------------------------------------------
(* Values *)

Creates == 1..MaxCreates
\* subscription IDs: the control plane gives call c's subscription the ID c
SubIDs == 1..MaxCreates
ConfirmIDs == SubIDs
NoID == 0

\* the (Type, condition) pair call c passes to AddSubscription
CreateArgs(c) == {<<<<"type", c>>, <<"condition", c>>>>}
NoArgs == <<<<"type", 0>>, <<"condition", 0>>>>

PostStatuses == {202, 401, 409, 500}

NoInfo == [typ |-> NoArgs[1], cond |-> NoArgs[2], status |-> 0, sub |-> NoID]
NoResult == [id |-> NoID, err |-> "none", info |-> NoInfo]

\* the typed errors of the package
UnauthorizedError == [err |-> "Unauthorized", info |-> NoInfo]
DuplicateSubscriptionError(args) ==
    [err |-> "DuplicateSubscription", info |-> [NoInfo EXCEPT !.typ = args[1], !.cond = args[2]]]
UnhandledStatusError(status) ==
    [err |-> "UnhandledStatus", info |-> [NoInfo EXCEPT !.status = status]]
VerificationTimeoutError(sub) ==
    [err |-> "VerificationTimeout", info |-> [NoInfo EXCEPT !.sub = sub]]
InternalError == [err |-> "Internal", info |-> NoInfo]
TokenError == [err |-> "TokenError", info |-> NoInfo]
Nil == [err |-> "nil", info |-> NoInfo]

\* inbound callbacks
MaxReq == 2
Reqs == 1..MaxReq
MsgIDs == {"m1", "m2"}
WebhookSecret == "secret"
MessageTypes == {"notification", "webhook_callback_verification", "revocation", "other"}
\* subscription types named in callback payloads; c.On was called for the first
EventTypes == {"stream.online", "stream.offline"}
handlers == {"stream.online"}

\* 10 * time.Minute, in seconds
TooOldAfter == 600
\* the Twitch-Eventsub-Message-Timestamp header: `since` is time.Since(t) in
\* seconds at the moment Handler looks at it
Timestamps ==
    {[rfc3339 |-> FALSE, since |-> 0]}
        \cup {[rfc3339 |-> TRUE, since |-> a] : a \in (TooOldAfter - 1)..(TooOldAfter + 1)}

\* request bodies: `json` says whether json.Unmarshal accepts the bytes
Bodies ==
    {[json |-> FALSE, type |-> "", id |-> NoID, challenge |-> ""]}
        \cup {[json |-> TRUE, type |-> t, id |-> 1, challenge |-> "challenge"] :
                 t \in EventTypes}

NoEffects == {}
IdleReq ==
    [pc |-> "idle", msgID |-> "", mtype |-> "", prior |-> FALSE, read |-> FALSE,
     forged |-> FALSE, wellFormed |-> FALSE,
     timestamp |-> [rfc3339 |-> FALSE, since |-> 0], parsed |-> FALSE, type |-> "", seen |-> FALSE,
     status |-> 0, written |-> FALSE, body |-> "", did |-> NoEffects]

\* outbound calls
MaxPages == 3
Cursors == {"c1", "c2"}
\* the subscriptions the control plane may list
Subs ==
    { [id |-> 1, type |-> "stream.online", condition |-> "k1"],
      [id |-> 2, type |-> "stream.online", condition |-> "k2"],
      [id |-> 3, type |-> "stream.offline", condition |-> "k1"] }
Sub(i) == CHOOSE x \in Subs : x.id = i
\* the "data" arrays of the pages
PageContents == {<<>>, <<Sub(1)>>, <<Sub(3)>>, <<Sub(2), Sub(3)>>, <<Sub(3), Sub(1)>>}
GetStatuses == {200, 401, 500}
DeleteStatuses == {204, 401, 404, 500}

\* the sum of a function to the naturals
RECURSIVE SumOver(_, _)
SumOver(f, S) ==
    IF S = {} THEN 0
    ELSE LET x == CHOOSE y \in S : TRUE IN f[x] + SumOver(f, S \ {x})
Sum(f) == SumOver(f, DOMAIN f)

\* the conditions RemoveSubscriptionByType may be called with
Conditions == {"k1", "k2", "k3"}

\* RemoveSubscriptionByType when it is not running: its arguments, the "subs" it
\* ranges over, the index of the next one, the IDs it has handed to
\* RemoveSubscription, its result
NoByType ==
    [pc |-> "none", Type |-> "", condition |-> "", subs |-> <<>>, next |-> 0,
     removed |-> <<>>, result |-> "none"]

IdleReg ==
    [pc |-> "idle", op |-> "", urlParams |-> <<>>, id |-> NoID, attempt |-> 0,
     cursor |-> "", subscriptions |-> <<>>, urls |-> <<>>, pages |-> <<>>,
     answers |-> <<>>, regens |-> 0, result |-> "none", info |-> NoInfo,
     by |-> NoByType]

\* sync.RWMutex: whether a writer holds it, and how many readers do
Unlocked == [writer |-> FALSE, readers |-> 0]

\* a caller of the checker that is in no call; `slice` is the value of
\* d.handledEvents a MarkHandled has read to append to, `after` says whether
\* the MarkHandled of the ID had returned when the IsHandled call began
IdleCaller == [pc |-> "idle", id |-> "", slice |-> <<>>, result |-> FALSE, after |-> FALSE]

NoneMarked == [begun |-> {}, returned |-> {}]

IdleCreate ==
    [pc |-> "idle", args |-> NoArgs, attempt |-> 0,
     answer |-> 0, subID |-> NoID, held |-> NoID, timer |-> 0, waited |-> 0,
     inner |-> "none", result |-> NoResult]

----------------------------------------------------------------------------
(* verify.go *)

\* generateHmac: HMAC-SHA256 as a keyed function without collisions
generateHmac(secret, message) == <<"hmac-sha256", secret, message>>

\* a comparison that looks at the "sha256=" prefix only
verifyHmacPrefix(hmac1, hmac2) == hmac1[1] = hmac2[1]

\* verifyHmac: hmac.Equal on the two strings
verifyHmac(hmac1, hmac2) == hmac1 = hmac2

\* a limit of 10 hours instead of 10 minutes
isMessageTooOldHours(timestamp) ==
    IF ~timestamp.rfc3339 THEN FALSE ELSE timestamp.since > 60 * TooOldAfter

\* isMessageTooOld: a timestamp that does not parse is not too old
isMessageTooOld(timestamp) ==
    IF ~timestamp.rfc3339 THEN FALSE ELSE timestamp.since > TooOldAfter

(* client.go: DefaultHandledEventsChecker *)

\* a checker that reports no message ID as handled
IsHandledNever(messageID) == FALSE

\* slices.Contains(d.handledEvents, messageID)
IsHandled(messageID) == \E i \in 1..Len(handledEvents) : handledEvents[i] = messageID

\* d.handledEvents = append(d.handledEvents, messageID)
MarkHandled(messageID) == Append(handledEvents, messageID)

(* client.go: DefaultHandledEventsChecker under concurrent calls; its callers
   are the requests Handler serves *)

\* MarkHandled calls followed
MaxMarks == 3

\* a lock that is granted whoever holds it
CanLockAlways(m) == TRUE

\* d.mu.Lock() can proceed: nobody holds the mutex
CanLock(m) == ~m.writer /\ m.readers = 0

\* d.mu.RLock() can proceed: no writer holds the mutex
CanRLock(m) == ~m.writer

\* IsHandled(messageID) is called
CallIsHandled(p, messageID) ==
    /\ callers[p].pc = "idle"
    /\ callers' = [callers EXCEPT ![p] =
                       [IdleCaller EXCEPT !.pc = "rlock", !.id = messageID,
                                          !.after = messageID \in marked.returned]]
    /\ UNCHANGED <<token, create, senders, published, hVars, reg, mu, marked>>

\* d.mu.RLock()
RLock(p) ==
    /\ callers[p].pc = "rlock"
    /\ CanRLock(mu)
    /\ mu' = [mu EXCEPT !.readers = @ + 1]
    /\ callers' = [callers EXCEPT ![p].pc = "contains"]
    /\ UNCHANGED <<token, create, senders, published, hVars, reg, marked>>

\* slices.Contains(d.handledEvents, messageID)
Contains(p) ==
    /\ callers[p].pc = "contains"
    /\ callers' = [callers EXCEPT ![p].pc = "runlock",
                                  ![p].result = IsHandled(callers[p].id)]
    /\ UNCHANGED <<token, create, senders, published, hVars, reg, mu, marked>>

\* the deferred d.mu.RUnlock(), and IsHandled returns
RUnlock(p) ==
    /\ callers[p].pc = "runlock"
    /\ mu' = [mu EXCEPT !.readers = @ - 1]
    /\ callers' = [callers EXCEPT ![p] = IdleCaller]
    /\ UNCHANGED <<token, create, senders, published, hVars, reg, marked>>

\* MarkHandled(messageID) is called
CallMarkHandled(p, messageID) ==
    /\ callers[p].pc = "idle"
    /\ Len(handledEvents)
           + Cardinality({q \in Reqs : callers[q].pc \in {"lock", "load", "store"}})
         < MaxMarks
    /\ callers' = [callers EXCEPT ![p] = [IdleCaller EXCEPT !.pc = "lock", !.id = messageID]]
    /\ marked' = [marked EXCEPT !.begun = @ \cup {messageID}]
    /\ UNCHANGED <<token, create, senders, published, hVars, reg, mu>>

\* d.mu.Lock()
Lock(p) ==
    /\ callers[p].pc = "lock"
    /\ CanLock(mu)
    /\ mu' = [mu EXCEPT !.writer = TRUE]
    /\ callers' = [callers EXCEPT ![p].pc = "load"]
    /\ UNCHANGED <<token, create, senders, published, hVars, reg, marked>>

\* "append(d.handledEvents, messageID)" reads d.handledEvents
Load(p) ==
    /\ callers[p].pc = "load"
    /\ callers' = [callers EXCEPT ![p].pc = "store", ![p].slice = handledEvents]
    /\ UNCHANGED <<token, create, senders, published, hVars, reg, mu, marked>>

\* "d.handledEvents = " writes the slice with messageID appended
Store(p) ==
    /\ callers[p].pc = "store"
    /\ handledEvents' = Append(callers[p].slice, callers[p].id)
    /\ callers' = [callers EXCEPT ![p].pc = "unlock", ![p].slice = <<>>]
    /\ UNCHANGED <<token, create, senders, published, req, started, revoked,
                   onRevocation, reg, mu, marked>>

\* the deferred d.mu.Unlock(), and MarkHandled returns
Unlock(p) ==
    /\ callers[p].pc = "unlock"
    /\ mu' = [mu EXCEPT !.writer = FALSE]
    /\ marked' = [marked EXCEPT !.returned = @ \cup {callers[p].id}]
    /\ callers' = [callers EXCEPT ![p] = IdleCaller]
    /\ UNCHANGED <<token, create, senders, published, hVars, reg>>

CheckerStep(p) ==
    \/ \E messageID \in MsgIDs : CallIsHandled(p, messageID)
    \/ RLock(p)
    \/ Contains(p)
    \/ RUnlock(p)
    \/ \E messageID \in MsgIDs : CallMarkHandled(p, messageID)
    \/ Lock(p)
    \/ Load(p)
    \/ Store(p)
    \/ Unlock(p)

(* handler.go: Client.Handler *)

\* hmacMessage: message ID, timestamp and body, joined
hmacMessage(in) == <<in.msgID, in.timestamp, in.body>>

\* "sha256=" + generateHmac(c.GetWebhookSecret(), hmacMessage)
expectedSignature(in) == <<"sha256=", generateHmac(WebhookSecret, hmacMessage(in))>>

\* the callbacks Twitch, or anybody else, may post
Callbacks == [msgID : MsgIDs, timestamp : Timestamps, body : Bodies, mtype : MessageTypes]

\* the Twitch-Eventsub-Message-Signature headers a callback may carry: the right
\* one, one made with another secret, one made over another body, the bare
\* digest without its prefix, none
Signatures(in) ==
    { expectedSignature(in),
      <<"sha256=", generateHmac("other secret", hmacMessage(in))>>,
      <<"sha256=", generateHmac(WebhookSecret,
                                hmacMessage([in EXCEPT !.body.challenge = "forged"]))>>,
      <<"", generateHmac(WebhookSecret, hmacMessage(in))>>,
      <<"", <<>>>> }

\* the callbacks whose body cannot be read: nothing but the headers matters
Unreadable == {in \in Callbacks : in.timestamp.since = TooOldAfter /\ ~in.body.json}

\* a parser that accepts nothing
UnmarshalRejects(body) == [ok |-> FALSE, payload |-> body]

\* json.Unmarshal(body, &payload)
Unmarshal(body) == [ok |-> body.json, payload |-> body]

\* "go func() { c.VerifiedSubscriptions <- payload.Subscription.ID }()"
Publish(id) == [senders EXCEPT ![id] = @ + 1]

\* w.WriteHeader(status)
WriteHeader(rec, status) == [rec EXCEPT !.pc = "done", !.status = status, !.written = TRUE]

\* Handler returns without writing: net/http answers 200 with an empty body
ReturnUnwritten(rec) == [rec EXCEPT !.pc = "done", !.status = 200, !.written = FALSE]

\* a message ID is in the handled set
Marked(messageID) == \E i \in DOMAIN handledEvents : handledEvents[i] = messageID

\* the record kept of a callback: its message type, whether its body could be
\* read, whether its signature header differs from "sha256=" and the HMAC of
\* message ID, timestamp and body under the webhook secret, and whether it is
\* well formed: readable, with that signature, not more than 10 minutes old and
\* with a JSON body; of a notification also its message ID, its timestamp and
\* whether its message ID was in the handled set when it arrived, whether or
\* not Handler comes to ask
Arrived(in, readOK, signature) ==
    LET right == <<"sha256=", <<"hmac-sha256", WebhookSecret,
                                <<in.msgID, in.timestamp, in.body>>>>>>
        seenAs == [IdleReq EXCEPT
                       !.mtype = in.mtype, !.read = readOK,
                       !.forged = readOK /\ signature # right,
                       !.wellFormed =
                           /\ readOK /\ signature = right /\ in.body.json
                           /\ ~(in.timestamp.rfc3339 /\ in.timestamp.since > TooOldAfter)]
    IN  IF in.mtype = "notification" /\ readOK
        THEN [seenAs EXCEPT !.msgID = in.msgID, !.timestamp = in.timestamp,
                            !.prior = Marked(in.msgID)]
        ELSE seenAs

\* Handler, from reading the body to the first look at the handled set
HandlerReceive(r, in, readOK, signature) ==
    /\ req[r].pc = "idle"
    /\ \A q \in Reqs : q < r => req[q].pc # "idle"
    /\ LET arrived == Arrived(in, readOK, signature)
           signed == arrived
           parsed == [signed EXCEPT !.parsed = TRUE]
       IN
       IF ~readOK
       THEN /\ req' = [req EXCEPT ![r] = WriteHeader(arrived, 500)]
            /\ UNCHANGED <<senders, revoked>>
       ELSE IF ~verifyHmac(expectedSignature(in), signature)
       THEN /\ req' = [req EXCEPT ![r] = WriteHeader(arrived, 403)]
            /\ UNCHANGED <<senders, revoked>>
       ELSE IF isMessageTooOld(in.timestamp)
       THEN /\ req' = [req EXCEPT ![r] = WriteHeader(signed, 204)]
            /\ UNCHANGED <<senders, revoked>>
       ELSE IF ~Unmarshal(in.body).ok
       THEN /\ req' = [req EXCEPT ![r] = WriteHeader(signed, 500)]
            /\ UNCHANGED <<senders, revoked>>
       ELSE IF in.mtype = "notification"
       THEN /\ req' = [req EXCEPT ![r] =
                         IF IsHandled(in.msgID)
                         THEN WriteHeader([parsed EXCEPT !.seen = TRUE], 204)
                         ELSE [parsed EXCEPT !.pc = "mark",
                                             !.type = Unmarshal(in.body).payload.type]]
            /\ UNCHANGED <<senders, revoked>>
       ELSE IF in.mtype = "webhook_callback_verification"
       THEN /\ senders' = Publish(Unmarshal(in.body).payload.id)
            /\ req' = [req EXCEPT ![r] =
                         [WriteHeader(parsed, 200) EXCEPT
                              !.body = Unmarshal(in.body).payload.challenge,
                              !.did = @ \cup {"publish"}]]
            /\ UNCHANGED revoked
       ELSE IF in.mtype = "revocation"
       THEN /\ revoked' = IF onRevocation THEN revoked + 1 ELSE revoked
            /\ req' = [req EXCEPT ![r] =
                         [WriteHeader(parsed, 204) EXCEPT
                              !.did = IF onRevocation THEN @ \cup {"revoke"} ELSE @]]
            /\ UNCHANGED senders
       ELSE /\ req' = [req EXCEPT ![r] = ReturnUnwritten(parsed)]
            /\ UNCHANGED <<senders, revoked>>
    /\ UNCHANGED <<token, create, published, handledEvents, started, onRevocation, reg,
                   gVars>>

\* Handler on a notification it found unhandled: MarkHandled, the handler's
\* goroutine, the answer
HandlerMark(r) ==
    /\ req[r].pc = "mark"
    /\ handledEvents' = MarkHandled(req[r].msgID)
    /\ IF req[r].type \in handlers
       THEN /\ started' = [started EXCEPT ![req[r].msgID] = @ + 1]
            /\ req' = [req EXCEPT ![r] =
                         [WriteHeader(req[r], 204) EXCEPT !.did = @ \cup {"mark", "dispatch"}]]
       ELSE /\ started' = started
            /\ req' = [req EXCEPT ![r] =
                         [WriteHeader(req[r], 204) EXCEPT !.did = @ \cup {"mark"}]]
    /\ UNCHANGED <<token, create, senders, published, revoked, onRevocation, reg,
                   gVars>>

InitHandler ==
    /\ token = 0
    /\ create = [c \in Creates |-> IdleCreate]
    /\ senders = [i \in ConfirmIDs |-> 0]
    /\ published = [i \in ConfirmIDs |-> 0]
    /\ req = [r \in Reqs |-> IdleReq]
    /\ handledEvents = <<>>
    /\ started = [m \in MsgIDs |-> 0]
    /\ revoked = 0
    /\ onRevocation = TRUE
    /\ reg = IdleReg
    /\ mu = Unlocked
    /\ callers = [p \in Reqs |-> IdleCaller]
    /\ marked = NoneMarked

NextHandler ==
    \/ \E r \in Reqs, in \in Callbacks :
           \E signature \in Signatures(in) : HandlerReceive(r, in, TRUE, signature)
    \/ \E r \in Reqs, in \in Unreadable :
           HandlerReceive(r, in, FALSE, expectedSignature(in))
    \/ \E r \in Reqs : HandlerMark(r)

HandlerSpec == InitHandler /\ [][NextHandler]_vars

\* the checker on its own, called concurrently
NextChecker == \E p \in Reqs : CheckerStep(p)

CheckerSpec == InitHandler /\ [][NextChecker]_vars

----------------------------------------------------------------------------
(* Client.AddSubscription and addSubscription *)

\* a waiter that takes any confirmation for its own
IdMatchesAny(id, subID) == TRUE

\* "if id == subscription.ID" in the confirmation loop
IdMatches(id, subID) == id = subID

\* What AddSubscription hands to its caller once addSubscription has returned
\* (id, e) on attempt `attempt`: the first attempt's result goes through
\* "return id, nil", the retry's result is returned as it is.
WrapperReturn(attempt, id, e) ==
    IF attempt = 1
    THEN [id |-> id, err |-> "nil", info |-> NoInfo]
    ELSE [id |-> id, err |-> e.err, info |-> e.info]

\* addSubscription returns (id, e) in call c: either AddSubscription goes on to
\* regenerate the token (first attempt, UnauthorizedError) or it returns.
Returned(c, id, e) ==
    IF create[c].attempt = 1 /\ e.err = "Unauthorized"
    THEN [create[c] EXCEPT !.pc = "regen", !.inner = e.err, !.held = NoID, !.timer = 0]
    ELSE [create[c] EXCEPT !.pc = "done", !.inner = e.err, !.held = NoID, !.timer = 0,
                           !.result = WrapperReturn(create[c].attempt, id, e)]

\* a waiter that goes back to waiting with an ID that is not its own
ReceivedAndDropped(c, id) ==
    IF IdMatches(id, create[c].subID)
    THEN [Returned(c, id, Nil) EXCEPT !.held = id]
    ELSE [create[c] EXCEPT !.pc = "select", !.timer = VerificationTimeout]

\* what a waiter does with an ID taken off the channel
Received(c, id) ==
    IF IdMatches(id, create[c].subID)
    THEN [Returned(c, id, Nil) EXCEPT !.held = id]
    ELSE [create[c] EXCEPT !.pc = "requeue", !.held = id]

\* the timer made by time.After on entering the select: seconds left to run
NewTimer == VerificationTimeout

\* AddSubscription is called and addSubscription sends the POST
AddSubscription(c, args) ==
    /\ create[c].pc = "idle"
    /\ \A d \in Creates : d < c => create[d].pc # "idle"
    /\ create' = [create EXCEPT ![c] = [@ EXCEPT !.pc = "post", !.args = args,
                                                  !.attempt = 1]]
    /\ UNCHANGED <<token, senders, published, hVars, reg, gVars>>

\* the control plane answers the POST
PostResponse(c, status, parses, data) ==
    /\ create[c].pc = "post"
    /\ create' = [create EXCEPT ![c] =
         [(IF status = 409 THEN Returned(c, NoID, DuplicateSubscriptionError(create[c].args))
           ELSE IF status = 401 THEN Returned(c, NoID, UnauthorizedError)
           ELSE IF status # 202 THEN Returned(c, NoID, UnhandledStatusError(status))
           ELSE IF ~parses THEN Returned(c, NoID, InternalError)
           ELSE IF Len(data) < 1 THEN Returned(c, NoID, InternalError)
           ELSE [create[c] EXCEPT !.pc = "select", !.subID = data[1],
                                  !.timer = NewTimer, !.waited = 0])
          EXCEPT !.answer = status]]
    /\ UNCHANGED <<token, senders, published, hVars, reg, gVars>>

\* AddSubscription regenerates the token after an UnauthorizedError and retries
Regenerate(c, ok) ==
    /\ create[c].pc = "regen"
    /\ IF ok
       THEN /\ token' = token + 1
            /\ create' = [create EXCEPT ![c] = [@ EXCEPT !.pc = "post", !.attempt = 2]]
       ELSE /\ token' = token
            /\ create' = [create EXCEPT ![c] = [@ EXCEPT !.pc = "done",
                              !.result = [id |-> NoID, err |-> TokenError.err, info |-> NoInfo]]]
    /\ UNCHANGED <<senders, published, hVars, reg, gVars>>

\* "case id := <-c.verifiedSubscriptions", the sender being a goroutine of Handler
ReceiveFromHandler(c, id) ==
    /\ create[c].pc = "select"
    /\ senders[id] > 0
    /\ senders' = [senders EXCEPT ![id] = @ - 1]
    /\ create' = [create EXCEPT ![c] = Received(c, id)]
    /\ UNCHANGED <<token, published, hVars, reg, gVars>>

\* the same receive, the sender being a waiter d blocked in
\* "c.verifiedSubscriptions <- id"; d then continues into a new select
ReceiveFromWaiter(c, d) ==
    /\ c # d
    /\ create[c].pc = "select"
    /\ create[d].pc = "requeue"
    /\ create' = [create EXCEPT ![c] = Received(c, create[d].held),
                                ![d] = [@ EXCEPT !.pc = "select", !.held = NoID,
                                                 !.timer = NewTimer]]
    /\ UNCHANGED <<token, senders, published, hVars, reg, gVars>>

\* "case <-time.After(10 * time.Second)"
Timeout(c) ==
    /\ create[c].pc = "select"
    /\ create[c].timer = 0
    /\ create' = [create EXCEPT ![c] =
                     Returned(c, NoID, VerificationTimeoutError(create[c].subID))]
    /\ UNCHANGED <<token, senders, published, hVars, reg, gVars>>

\* Handler on a validly signed, fresh verification callback for id:
\* "go func() { c.VerifiedSubscriptions <- payload.Subscription.ID }()"
Verification(id) ==
    /\ Sum(published) < MaxConfirm
    /\ published' = [published EXCEPT ![id] = @ + 1]
    /\ senders' = Publish(id)
    /\ UNCHANGED <<token, create, hVars, reg, gVars>>

Min(a, b) == IF a < b THEN a ELSE b
Max(a, b) == IF a > b THEN a ELSE b

Waiting(c) == create[c].pc \in {"select", "requeue"}

\* TickStep seconds pass: the running timers come closer to firing
Elapse(r) ==
    IF r.pc \in {"select", "requeue"}
    THEN [r EXCEPT !.timer = Max(@ - TickStep, 0), !.waited = Min(@ + TickStep, MaxWait)]
    ELSE r

Tick ==
    /\ create' = [c \in Creates |-> Elapse(create[c])]
    /\ create' # create
    /\ UNCHANGED <<token, senders, published, hVars, reg, gVars>>

\* the "data" array of a 202 answer; the control plane never reuses an ID, and
\* the subscription made for call c is given the ID c
PostBodies(c) == {<<>>, <<c>>}

CreateStep(c) ==
    \/ \E status \in PostStatuses, parses \in BOOLEAN, data \in PostBodies(c) :
           PostResponse(c, status, parses, data)
    \/ \E ok \in BOOLEAN : Regenerate(c, ok)
    \/ \E id \in ConfirmIDs : ReceiveFromHandler(c, id)
    \/ \E d \in Creates : ReceiveFromWaiter(c, d)
    \/ Timeout(c)

Init ==
    /\ token = 0
    /\ create = [c \in Creates |-> IdleCreate]
    /\ senders = [i \in ConfirmIDs |-> 0]
    /\ published = [i \in ConfirmIDs |-> 0]
    /\ req = [r \in Reqs |-> IdleReq]
    /\ handledEvents = <<>>
    /\ started = [m \in MsgIDs |-> 0]
    /\ revoked = 0
    /\ onRevocation = TRUE
    /\ reg = IdleReg
    /\ mu = Unlocked
    /\ callers = [p \in Reqs |-> IdleCaller]
    /\ marked = NoneMarked

Next ==
    \/ \E c \in Creates : \E args \in CreateArgs(c) : AddSubscription(c, args)
    \/ \E c \in Creates : CreateStep(c)
    \/ \E id \in ConfirmIDs : Verification(id)
    \/ Tick

Spec == Init /\ [][Next]_vars

FairSpec == Spec /\ \A c \in Creates : WF_vars(CreateStep(c))

\* the goroutines are scheduled fairly and time passes
FairTimeSpec == FairSpec /\ WF_vars(Tick)

----------------------------------------------------------------------------
(* URLs: a string is the sequence of its pieces, "+" is \o *)

Path == <<"/eventsub/subscriptions">>

\* the pieces that open a query string, and all the pieces that name a parameter
QueryOpeners == {"?after=", "?type=", "?status=", "?id="}
ParamName(piece) ==
    CASE piece \in {"?after=", "&after="} -> "after"
      [] piece \in {"?type=", "&type="} -> "type"
      [] piece \in {"?status=", "&status="} -> "status"
      [] piece \in {"?id=", "&id="} -> "id"
      [] OTHER -> ""

\* where the query string of a URL starts: at its first "?" (0: it has none)
QueryStart(url) ==
    IF \E i \in DOMAIN url : url[i] \in QueryOpeners
    THEN CHOOSE i \in DOMAIN url :
             /\ url[i] \in QueryOpeners
             /\ \A j \in DOMAIN url : url[j] \in QueryOpeners => i <= j
    ELSE 0

\* the path of a URL: all that precedes the query string
UrlPath(url) == IF QueryStart(url) = 0 THEN url ELSE SubSeq(url, 1, QueryStart(url) - 1)

\* whether the query string of a URL has the parameter, and its value
HasParam(url, name) ==
    /\ QueryStart(url) # 0
    /\ \E i \in QueryStart(url)..(Len(url) - 1) : ParamName(url[i]) = name
ParamValue(url, name) ==
    url[(CHOOSE i \in QueryStart(url)..(Len(url) - 1) : ParamName(url[i]) = name) + 1]

(* fetchSubscriptions and its wrappers, RemoveSubscription, removeSubscription *)

\* the urlParams of GetSubscriptions, GetSubscriptionsByType, GetSubscriptionsByStatus
GetSubscriptions == <<>>
GetSubscriptionsByType(Type) == <<"?type=", Type>>
GetSubscriptionsByStatus(status) == <<"?status=", status>>

\* "params" of fetchSubscriptions for the page after `cursor`
PageParams(urlParams, cursor) ==
    IF cursor # ""
    THEN IF urlParams = <<>>
         THEN urlParams \o <<"?after=", cursor>>
         ELSE <<"&after=", cursor>>
    ELSE <<>>

\* the URL fetchSubscriptions hands to genericRequest
PageURL(urlParams, cursor) == Path \o PageParams(urlParams, cursor)

\* the URL removeSubscription hands to genericRequest
DeleteURL(id) == Path \o <<"?id=", id>>

\* "subscriptions = append(subscriptions, responseStruct.Data...)"
AppendPage(subscriptions, data) == subscriptions \o data

\* the subscriptions a control plane that honours the type filter may list
Visible(url) ==
    {x \in Subs : HasParam(url, "type") => x.type = ParamValue(url, "type")}

\* the answers to a GET: a transport failure, or a status with a body that is
\* unreadable, or not JSON, or a page
GetAnswers(url, received) ==
    {[sent |-> FALSE, status |-> 0, readOK |-> FALSE, json |-> FALSE,
      data |-> <<>>, cursor |-> ""]}
    \cup {[sent |-> TRUE, status |-> st, readOK |-> FALSE, json |-> FALSE,
           data |-> <<>>, cursor |-> ""] : st \in GetStatuses}
    \cup {[sent |-> TRUE, status |-> st, readOK |-> TRUE, json |-> FALSE,
           data |-> <<>>, cursor |-> ""] : st \in GetStatuses}
    \cup {[sent |-> TRUE, status |-> 200, readOK |-> TRUE, json |-> TRUE,
           data |-> d, cursor |-> cu] :
             d \in {x \in PageContents : \A i \in DOMAIN x : x[i] \in Visible(url)},
             cu \in {""} \cup (IF received + 1 < MaxPages THEN Cursors ELSE {})}

Last(seq) == seq[Len(seq)]

\* fetchSubscriptions returns (nil, err)
ListFails(err, status) ==
    [reg EXCEPT !.pc = "done", !.subscriptions = <<>>, !.result = err,
                !.info = [NoInfo EXCEPT !.status = status]]

\* fetchSubscriptions with the answer to the request for a page, after the 401 check
ProcessPage(a) ==
    IF ~a.readOK THEN ListFails(InternalError.err, 0)
    ELSE IF a.status # 200 THEN ListFails(UnhandledStatusError(a.status).err, a.status)
    ELSE IF ~a.json THEN ListFails(InternalError.err, 0)
    ELSE LET all == AppendPage(reg.subscriptions, a.data)
             got == Append(reg.pages, [data |-> a.data, cursor |-> a.cursor])
         IN  IF a.cursor = ""
             THEN [reg EXCEPT !.pc = "done", !.subscriptions = all, !.pages = got,
                              !.result = Nil.err]
             ELSE [reg EXCEPT !.pc = "get", !.subscriptions = all, !.pages = got,
                              !.cursor = a.cursor,
                              !.urls = Append(@, PageURL(reg.urlParams, a.cursor))]

\* a wrapper calls fetchSubscriptions(urlParams), which requests the first page
List(urlParams) ==
    /\ reg.pc = "idle"
    /\ reg' = [reg EXCEPT !.pc = "get", !.op = "list", !.urlParams = urlParams,
                          !.urls = <<PageURL(urlParams, "")>>]
    /\ UNCHANGED <<token, create, senders, published, hVars, gVars>>

\* the answer to the request for a page
GetResponse(a) ==
    /\ reg.pc = "get"
    /\ reg' = [(IF ~a.sent THEN ListFails(InternalError.err, 0)
                ELSE IF a.status = 401 THEN [reg EXCEPT !.pc = "regen"]
                ELSE ProcessPage(a))
               EXCEPT !.answers = Append(@, a.status)]
    /\ UNCHANGED <<token, create, senders, published, hVars, gVars>>

\* generateToken after a 401, and the request for the same page again
ListRegenerate(ok) ==
    /\ reg.pc = "regen"
    /\ reg.op = "list"
    /\ IF ok
       THEN /\ token' = token + 1
            /\ reg' = [reg EXCEPT !.pc = "retry", !.regens = @ + 1,
                                  !.urls = Append(@, PageURL(reg.urlParams, reg.cursor))]
       ELSE /\ token' = token
            /\ reg' = [ListFails(TokenError.err, 0) EXCEPT !.regens = @ + 1]
    /\ UNCHANGED <<create, senders, published, hVars, gVars>>

\* the answer to the repeated request
RetryResponse(a) ==
    /\ reg.pc = "retry"
    /\ reg' = [(IF ~a.sent THEN ListFails(InternalError.err, 0) ELSE ProcessPage(a))
               EXCEPT !.answers = Append(@, a.status)]
    /\ UNCHANGED <<token, create, senders, published, hVars, gVars>>

\* the errors of removeSubscription by the answer to its DELETE
removeSubscription(a) ==
    IF ~a.sent THEN InternalError.err
    ELSE IF a.status = 204 THEN Nil.err
    ELSE IF a.status = 401 THEN UnauthorizedError.err
    ELSE IF a.status = 404 THEN "SubscriptionNotFound"
    ELSE IF ~a.readOK THEN InternalError.err
    ELSE UnhandledStatusError(a.status).err

\* the answers to a DELETE
DeleteAnswers ==
    {[sent |-> FALSE, status |-> 0, readOK |-> FALSE]}
    \cup [sent : {TRUE}, status : DeleteStatuses, readOK : BOOLEAN]

\* a retry on every UnauthorizedError, whichever attempt returned it
RemoveRetriesAlways(attempt, err) == err = UnauthorizedError.err

\* whether RemoveSubscription goes on to regenerate the token:
\* "if err != nil" and "errors.As(err, &uaErr)" after the first removeSubscription
RemoveRetries(attempt, err) == attempt = 1 /\ err = UnauthorizedError.err

\* RemoveSubscription(id) is called and removeSubscription sends the DELETE
RemoveSubscription(id) ==
    /\ reg.pc = "idle"
    /\ reg' = [reg EXCEPT !.pc = "delete", !.op = "remove", !.id = id, !.attempt = 1,
                          !.urls = <<DeleteURL(id)>>]
    /\ UNCHANGED <<token, create, senders, published, hVars, gVars>>

\* the answer to a DELETE
DeleteResponse(a) ==
    /\ reg.pc = "delete"
    /\ reg' = [(IF RemoveRetries(reg.attempt, removeSubscription(a))
                THEN [reg EXCEPT !.pc = "regen"]
                ELSE [reg EXCEPT !.pc = "done", !.result = removeSubscription(a),
                                 !.info = [NoInfo EXCEPT !.status = a.status]])
               EXCEPT !.answers = Append(@, a.status)]
    /\ UNCHANGED <<token, create, senders, published, hVars, gVars>>

\* generateToken after the UnauthorizedError, and removeSubscription again
RemoveRegenerate(ok) ==
    /\ reg.pc = "regen"
    /\ reg.op = "remove"
    /\ IF ok
       THEN /\ token' = token + 1
            /\ reg' = [reg EXCEPT !.pc = "delete", !.attempt = 2, !.regens = @ + 1,
                                  !.urls = Append(@, DeleteURL(reg.id))]
       ELSE /\ token' = token
            /\ reg' = [reg EXCEPT !.pc = "done", !.regens = @ + 1, !.result = TokenError.err]
    /\ UNCHANGED <<create, senders, published, hVars, gVars>>

ListFilters ==
    {GetSubscriptions}
        \cup {GetSubscriptionsByType(t) : t \in EventTypes}
        \cup {GetSubscriptionsByStatus("enabled")}

InitRegistry ==
    /\ token = 0
    /\ create = [c \in Creates |-> IdleCreate]
    /\ senders = [i \in ConfirmIDs |-> 0]
    /\ published = [i \in ConfirmIDs |-> 0]
    /\ req = [r \in Reqs |-> IdleReq]
    /\ handledEvents = <<>>
    /\ started = [m \in MsgIDs |-> 0]
    /\ revoked = 0
    /\ onRevocation = TRUE
    /\ reg = IdleReg
    /\ mu = Unlocked
    /\ callers = [p \in Reqs |-> IdleCaller]
    /\ marked = NoneMarked

NextRegistry ==
    \/ \E urlParams \in ListFilters : List(urlParams)
    \/ reg.pc = "get" /\ \E a \in GetAnswers(Last(reg.urls), Len(reg.pages)) : GetResponse(a)
    \/ \E ok \in BOOLEAN : ListRegenerate(ok)
    \/ reg.pc = "retry" /\ \E a \in GetAnswers(Last(reg.urls), Len(reg.pages)) : RetryResponse(a)
    \/ \E x \in Subs : RemoveSubscription(x.id)
    \/ \E a \in DeleteAnswers : DeleteResponse(a)
    \/ \E ok \in BOOLEAN : RemoveRegenerate(ok)

RegistrySpec == InitRegistry /\ [][NextRegistry]_vars

(* RemoveSubscriptionByType *)

\* "if sub.Condition == condition"
ConditionMatches(sub, condition) == sub.condition = condition

\* RemoveSubscriptionByType(Type, condition) is called: GetSubscriptionsByType(Type)
\* calls fetchSubscriptions, which requests the first page
RemoveSubscriptionByType(Type, condition) ==
    /\ reg.pc = "idle"
    /\ reg' = [reg EXCEPT !.pc = "get", !.op = "list",
                          !.urlParams = GetSubscriptionsByType(Type),
                          !.urls = <<PageURL(GetSubscriptionsByType(Type), "")>>,
                          !.by = [NoByType EXCEPT !.pc = "list", !.Type = Type,
                                                  !.condition = condition]]
    /\ UNCHANGED <<token, create, senders, published, hVars, gVars>>

\* RemoveSubscriptionByType goes on after GetSubscriptionsByType or
\* RemoveSubscription has returned: it returns the error, or ranges on to the
\* next subscription with the condition and calls RemoveSubscription, which
\* sends the DELETE, or returns nil at the end of subs
ByTypeContinue ==
    /\ reg.pc = "done"
    /\ reg.by.pc \in {"list", "remove"}
    /\ LET subs == IF reg.by.pc = "list" THEN reg.subscriptions ELSE reg.by.subs
           from == IF reg.by.pc = "list" THEN 1 ELSE reg.by.next
           matches == {i \in from..Len(subs) : ConditionMatches(subs[i], reg.by.condition)}
       IN  IF reg.result # Nil.err
           THEN reg' = [reg EXCEPT !.by.pc = "done", !.by.subs = subs,
                                   !.by.result = reg.result]
           ELSE IF matches = {}
           THEN reg' = [reg EXCEPT !.by.pc = "done", !.by.subs = subs,
                                   !.by.result = Nil.err]
           ELSE LET i == CHOOSE j \in matches : \A k \in matches : j <= k
                IN  reg' = [IdleReg EXCEPT
                                !.pc = "delete", !.op = "remove", !.id = subs[i].id,
                                !.attempt = 1, !.urls = <<DeleteURL(subs[i].id)>>,
                                !.by = [reg.by EXCEPT !.pc = "remove", !.subs = subs,
                                                      !.next = i + 1,
                                                      !.removed = Append(@, subs[i].id)]]
    /\ UNCHANGED <<token, create, senders, published, hVars, gVars>>

NextByType ==
    \/ \E Type \in EventTypes, condition \in Conditions :
           RemoveSubscriptionByType(Type, condition)
    \/ reg.pc = "get" /\ \E a \in GetAnswers(Last(reg.urls), Len(reg.pages)) : GetResponse(a)
    \/ \E ok \in BOOLEAN : ListRegenerate(ok)
    \/ reg.pc = "retry" /\ \E a \in GetAnswers(Last(reg.urls), Len(reg.pages)) : RetryResponse(a)
    \/ ByTypeContinue
    \/ \E a \in DeleteAnswers : DeleteResponse(a)
    \/ \E ok \in BOOLEAN : RemoveRegenerate(ok)

ByTypeSpec == InitRegistry /\ [][NextByType]_vars

----------------------------------------------------------------------------
(* Claims about AddSubscription and the rendezvous *)

Done(c) == create[c].pc = "done"
ReturnedOwn(c) == Done(c) /\ create[c].result.err = Nil.err /\ create[c].result.id = c
TimedOut(c) == create[c].inner = VerificationTimeoutError(c).err

\* calls 1 and 2 both await their confirmation, none has waited a timeout
\* period, and the callbacks for ID 2 and for ID 1, and no other, have been handled
TwoAwaiting ==
    /\ \A c \in {1, 2} : Waiting(c) /\ create[c].subID = c /\ create[c].waited = 0
    /\ published[1] = 1 /\ published[2] = 1 /\ Sum(published) = 2

\* C1: with two concurrent calls awaiting IDs 1 and 2 and both confirmations
\* handled within the timeout, under fair scheduling both calls eventually
\* return, each with its own ID (unless a timeout period runs out or a further
\* callback arrives first).
C1_BothEventuallyReturn ==
    TwoAwaiting ~> ( \/ ReturnedOwn(1) /\ ReturnedOwn(2)
                     \/ \E c \in Creates : TimedOut(c)
                     \/ Sum(published) > 2 )

\* C2: a call whose POST was answered 202 with ID X and for whose ID no
\* verification callback has been handled returns a VerificationTimeoutError
\* naming X, never a nil error.
C2_TimeoutIsReturned ==
    \A c \in Creates :
        (Done(c) /\ create[c].subID # NoID /\ published[create[c].subID] = 0)
            => /\ create[c].result.err = VerificationTimeoutError(c).err
               /\ create[c].result.info.sub = create[c].subID

\* C3: a call whose POST was answered 409 returns a DuplicateSubscriptionError
\* with its type and condition; one whose POST was answered with a status other
\* than 202, 401, 409 returns an UnhandledStatusError with that status.
C3_PostErrorsAreReturned ==
    \A c \in Creates :
        Done(c) =>
            /\ create[c].answer = 409 =>
                   /\ create[c].result.err = DuplicateSubscriptionError(create[c].args).err
                   /\ create[c].result.info = DuplicateSubscriptionError(create[c].args).info
            /\ create[c].answer \in PostStatuses \ {202, 401, 409} =>
                   /\ create[c].result.err = UnhandledStatusError(create[c].answer).err
                   /\ create[c].result.info.status = create[c].answer

\* C4: a call is completed by a confirmation, and returns an ID, only when the
\* ID it took off the channel is the ID of its own 202 answer.
C4_OnlyOwnConfirmation ==
    \A c \in Creates :
        /\ (Done(c) /\ create[c].inner = Nil.err) =>
               /\ create[c].subID # NoID
               /\ create[c].held = create[c].subID
               /\ create[c].result.id = create[c].subID
        /\ (Done(c) /\ create[c].result.id # NoID) => create[c].inner = Nil.err

\* a call has returned its own ID while another holds an ID that is not its own
C4_Witness ==
    \E c, d \in Creates :
        /\ c # d
        /\ Done(c) /\ create[c].inner = Nil.err /\ create[c].result.id = create[c].subID
        /\ create[d].pc = "requeue" /\ create[d].held # create[d].subID

\* C17: a call that is awaiting its confirmation eventually returns, when the
\* goroutines are scheduled fairly and time passes, whatever IDs are published.
C17_WaitingEventuallyReturns ==
    \A c \in Creates : Waiting(c) ~> Done(c)

\* the calls blocked in "c.verifiedSubscriptions <- id" with this ID, and the
\* calls that returned because they took this ID, their own, off the channel
Requeueing(id) == {c \in Creates : create[c].pc = "requeue" /\ create[c].held = id}
ConsumedBy(id) ==
    {c \in Creates : /\ Done(c) /\ create[c].inner = Nil.err
                     /\ create[c].held = id /\ create[c].subID = id}

\* C19: every published ID is still offered on the channel, by a goroutine of
\* Handler or by a waiter that puts it back, or was consumed by a call awaiting
\* that very ID; a call holds an ID that is not its own only while it offers
\* it, and a call that timed out holds none.
C19_NoConfirmationDropped ==
    /\ \A id \in ConfirmIDs :
           published[id] = senders[id] + Cardinality(Requeueing(id))
                                       + Cardinality(ConsumedBy(id))
    /\ \A c \in Creates :
           /\ (create[c].held # NoID /\ create[c].held # create[c].subID)
                  => create[c].pc = "requeue"
           /\ TimedOut(c) => create[c].held = NoID

\* one call has consumed its own ID, another has timed out, and an ID nobody
\* awaits any more is still offered by the goroutine that published it
C19_Witness ==
    \E c, d \in Creates :
        /\ ConsumedBy(c) = {c}
        /\ TimedOut(d) /\ Done(d)
        /\ senders[d] = 1 /\ published[d] = 1

\* C20: the timeout of a waiting call runs from the moment it starts to wait:
\* a call that has awaited its confirmation for a whole timeout period and is
\* in the select again can take its timeout at once.
C20_TimeoutNotRestarted ==
    \A c \in Creates :
        (create[c].pc = "select" /\ create[c].waited >= VerificationTimeout)
            => create[c].timer = 0

----------------------------------------------------------------------------
(* Claims about Handler *)

Answered(r) == req[r].pc = "done"
ValidlySigned(r) == req[r].read /\ ~req[r].forged
Notification(r) == req[r].mtype = "notification"
Stale(r) == req[r].timestamp.rfc3339 /\ req[r].timestamp.since > TooOldAfter

\* C5 as stated: a validly signed notification whose message ID was marked
\* handled before it arrived is answered 204 and starts no handler.
C5_DuplicateAnswered204 ==
    \A r \in Reqs :
        (Answered(r) /\ Notification(r) /\ ValidlySigned(r) /\ req[r].prior)
            => req[r].status = 204 /\ "dispatch" \notin req[r].did

\* C5, amended: a validly signed notification whose message ID was marked
\* handled before it arrived starts no handler and marks nothing; it is
\* answered 204, or 500 when it is fresh and its body is not valid JSON.
C5_DuplicateNotRedelivered ==
    \A r \in Reqs :
        (Notification(r) /\ ValidlySigned(r) /\ req[r].prior)
            => /\ Answered(r)
               /\ req[r].did = NoEffects
               /\ req[r].written
               /\ req[r].status = IF Stale(r) \/ req[r].parsed THEN 204 ELSE 500

\* a duplicate of a handled notification has been acknowledged with 204 and
\* the handler has been started once, for the first delivery only
C5_Witness ==
    \E r \in Reqs :
        /\ Answered(r) /\ Notification(r) /\ ValidlySigned(r) /\ req[r].prior
        /\ req[r].seen /\ req[r].status = 204 /\ started[req[r].msgID] = 1

\* C6: a callback whose signature header is not the expected one is answered
\* 403 in the step that receives it, and that step starts no handler, marks no
\* message ID, publishes no ID and does not call OnRevocation.
C6_BadSignatureRejected ==
    [][\A r \in Reqs :
          (req[r].pc = "idle" /\ req'[r].pc # "idle" /\ req'[r].forged)
              => /\ req'[r].pc = "done"
                 /\ req'[r].status = 403 /\ req'[r].written
                 /\ req'[r].did = NoEffects
                 /\ UNCHANGED <<handledEvents, started, senders, revoked>>]_vars

\* callbacks of two message types with a bad signature have been answered
C6_Witness ==
    \E r, q \in Reqs :
        /\ Answered(r) /\ req[r].forged /\ req[r].mtype = "webhook_callback_verification"
        /\ Answered(q) /\ req[q].forged /\ req[q].mtype = "notification"
        /\ req[r].status = 403 /\ req[q].status = 403

\* C7: a validly signed notification older than 10 minutes is answered 204 and
\* starts no handler; one that is 10 minutes less a second old, whose message
\* ID is not handled and for whose subscription type a handler is registered,
\* is handed to that handler.
C7_Freshness ==
    \A r \in Reqs :
        (Answered(r) /\ Notification(r) /\ ValidlySigned(r)) =>
            /\ Stale(r) => req[r].status = 204 /\ req[r].did = NoEffects
            /\ ( /\ req[r].timestamp.rfc3339
                 /\ req[r].timestamp.since = TooOldAfter - 1
                 /\ ~req[r].prior
                 /\ req[r].type \in handlers )
                   => "dispatch" \in req[r].did /\ req[r].status = 204

\* a stale notification has been ignored and one just fresh enough dispatched
C7_Witness ==
    \E r, q \in Reqs :
        /\ Answered(r) /\ Notification(r) /\ ValidlySigned(r) /\ Stale(r)
        /\ req[r].status = 204
        /\ Answered(q) /\ Notification(q) /\ ValidlySigned(q)
        /\ req[q].timestamp.since = TooOldAfter - 1 /\ "dispatch" \in req[q].did
        /\ started[req[q].msgID] = 1

\* C12: the step of Handler that receives a readable, validly signed
\* verification callback that is not older than 10 minutes and has a JSON body
\* answers it 200 with the challenge as body and hands its ID to a new sender
\* goroutine; the callback is never left waiting, whatever the Create calls do.
C12_VerificationAnsweredAtOnce ==
    [][\A r \in Reqs :
          ( /\ req[r].pc = "idle" /\ req'[r].pc # "idle"
            /\ req'[r].mtype = "webhook_callback_verification"
            /\ req'[r].wellFormed )
              => /\ req'[r].pc = "done"
                 /\ req'[r].status = 200 /\ req'[r].written
                 /\ req'[r].body = "challenge"
                 /\ req'[r].did = {"publish"}
                 /\ Sum(senders') = Sum(senders) + 1
                 /\ UNCHANGED <<create, handledEvents, started, revoked>>]_vars

\* two verification callbacks have been answered 200 with the challenge while
\* no AddSubscription call is there to take their IDs off the channel
C12_Witness ==
    /\ \A r \in Reqs :
           /\ Answered(r) /\ req[r].mtype = "webhook_callback_verification"
           /\ req[r].wellFormed /\ req[r].status = 200 /\ req[r].body = "challenge"
    /\ Sum(senders) = MaxReq
    /\ \A c \in Creates : create[c].pc = "idle"

\* C18: for every message ID the registered handler is started at most once,
\* however the notification callbacks that carry the ID are interleaved.
C18_HandlerStartedAtMostOnce ==
    \A m \in MsgIDs : started[m] <= 1

\* C14: every callback whose body was read is answered with an explicitly
\* written status out of 200, 204, 403, 500, whatever its message type.
C14_StatusAlwaysWritten ==
    \A r \in Reqs :
        (Answered(r) /\ req[r].read)
            => req[r].written /\ req[r].status \in {200, 204, 403, 500}

\* C16: under any interleaving of IsHandled and MarkHandled calls the handled
\* set only grows, every ID whose MarkHandled has returned is in it (so that
\* concurrent MarkHandled calls lose no entry) and an IsHandled call for it that
\* began afterwards returns true, and IsHandled returns true for no ID for
\* which MarkHandled was never called.
C16_CheckerIsLinearizable ==
    /\ [](\A id \in marked.returned : Marked(id))
    /\ [][/\ Len(handledEvents') >= Len(handledEvents)
          /\ \A i \in DOMAIN handledEvents : handledEvents'[i] = handledEvents[i]
          /\ \A p \in Reqs :
                 (callers[p].pc = "runlock" /\ callers'[p].pc = "idle")
                     => /\ callers[p].after => callers[p].result
                        /\ callers[p].result => callers[p].id \in marked.begun]_vars

\* MarkHandled has returned for two distinct IDs, both are in the set, and an
\* IsHandled call that began after its ID was marked is about to return true
\* while another caller waits for the mutex to mark again
C16_Witness ==
    /\ Len(handledEvents) = 2 /\ handledEvents[1] # handledEvents[2]
    /\ marked.returned = MsgIDs
    /\ \E p, q \in Reqs :
           /\ callers[p].pc = "runlock" /\ callers[p].after /\ callers[p].result
           /\ callers[q].pc = "lock"

----------------------------------------------------------------------------
(* Claims about RemoveSubscription and fetchSubscriptions *)

Removing == reg.op = "remove"
Listing == reg.op = "list"
Finished == reg.pc = "done"
FirstAnswer401 == Len(reg.answers) >= 1 /\ reg.answers[1] = 401

RECURSIVE Concatenation(_)
Concatenation(pages) ==
    IF pages = <<>> THEN <<>>
    ELSE Concatenation(SubSeq(pages, 1, Len(pages) - 1)) \o Last(pages).data

\* C8 as stated: a Remove whose delete request was answered 401 has regenerated
\* the credential once and sent one retried delete request by the time it
\* returns; it returns Unauthorized when the retry is answered 401 too.
C8_OneRegenerationOneRetry ==
    (Removing /\ Finished /\ FirstAnswer401)
        => /\ reg.regens = 1
           /\ Len(reg.urls) = 2
           /\ (Len(reg.answers) = 2 /\ reg.answers[2] = 401)
                  => reg.result = UnauthorizedError.err

\* C8, amended: a 401 answer to the delete request of Remove triggers exactly
\* one credential regeneration, followed by exactly one retried delete request
\* if the regeneration succeeds and by none if it fails (Remove then returns an
\* error); a retry answered 401 makes Remove return Unauthorized;
\* no Remove sends more than two delete requests or regenerates more than once,
\* and one whose first answer is not 401 sends one request and never regenerates.
C8_OneRegenerationRetryIfRegenerated ==
    Removing =>
        /\ Len(reg.urls) <= 2 /\ reg.regens <= 1
        /\ \A k \in DOMAIN reg.urls : reg.urls[k] = DeleteURL(reg.id)
        /\ (Len(reg.answers) >= 1 /\ ~FirstAnswer401)
               => Finished /\ reg.regens = 0 /\ Len(reg.urls) = 1
        /\ FirstAnswer401 =>
               /\ reg.pc = "regen" => reg.regens = 0 /\ Len(reg.urls) = 1
               /\ reg.pc = "delete" => reg.regens = 1 /\ Len(reg.urls) = 2
               /\ Finished =>
                      /\ reg.regens = 1
                      /\ \/ reg.regens > token /\ Len(reg.urls) = 1
                                /\ Len(reg.answers) = 1 /\ reg.result # Nil.err
                         \/ reg.regens = token /\ Len(reg.urls) = 2
                                /\ Len(reg.answers) = 2
                      /\ (Len(reg.answers) = 2 /\ reg.answers[2] = 401)
                             => reg.result = UnauthorizedError.err

\* a Remove has returned Unauthorized after two delete requests answered 401
C8_Witness ==
    /\ Removing /\ Finished
    /\ reg.answers = <<401, 401>>
    /\ reg.result = UnauthorizedError.err
    /\ Len(reg.urls) = 2 /\ reg.regens = 1

\* C9: a List that received pages p1..pn without a 401 answer, the last with an
\* empty cursor, issued n requests, the first without an after parameter and
\* request k+1 with after equal to the cursor of page k, and returns
\* p1 ++ ... ++ pn.
C9_Pagination ==
    (Listing /\ Finished /\ reg.result = Nil.err
             /\ \A i \in DOMAIN reg.answers : reg.answers[i] # 401)
        => /\ Len(reg.urls) = Len(reg.pages)
           /\ ~HasParam(reg.urls[1], "after")
           /\ \A k \in 1..(Len(reg.pages) - 1) :
                  /\ UrlPath(reg.urls[k + 1]) = Path
                  /\ HasParam(reg.urls[k + 1], "after")
                  /\ ParamValue(reg.urls[k + 1], "after") = reg.pages[k].cursor
           /\ reg.subscriptions = Concatenation(reg.pages)

\* C10: every page request of a filtered List carries the filter as a query
\* parameter.
C10_FilterInEveryRequest ==
    (Listing /\ reg.urlParams # GetSubscriptions)
        => \A k \in DOMAIN reg.urls :
               /\ HasParam(reg.urls[k], ParamName(reg.urlParams[1]))
               /\ ParamValue(reg.urls[k], ParamName(reg.urlParams[1])) = reg.urlParams[2]

\* the elements of a sequence
Range(seq) == {seq[i] : i \in DOMAIN seq}

\* C11: a RemoveByType(T, cond) that returns success, so that no delete failed,
\* has issued a delete request for a subscription if and only if the control
\* plane listed it and it has type T and condition cond; with no such
\* subscription it has issued no delete request.
C11_RemovesExactlyTheMatches ==
    (reg.by.pc = "done" /\ reg.by.result = Nil.err)
        => \A x \in Subs :
               x.id \in Range(reg.by.removed)
                   <=> /\ x \in Range(reg.by.subs)
                       /\ x.type = reg.by.Type
                       /\ x.condition = reg.by.condition

\* C13: an outbound call (Remove, List, Create) that was answered 401 and whose
\* credential regeneration failed returns the Unauthorized error, has sent no
\* retry request and has left the credential as it was.
C13_FailedRegenerationSurfacesUnauthorized ==
    /\ (Finished /\ reg.regens > token)
           => /\ reg.result = UnauthorizedError.err
              /\ Last(reg.answers) = 401
    /\ \A c \in Creates :
           (Done(c) /\ create[c].attempt = 1 /\ create[c].inner = UnauthorizedError.err)
               => create[c].result.err = UnauthorizedError.err

\* C15: a 401 answer to a page request of List is followed by one regeneration
\* and one request with the same URL, the pages accumulated so far being kept;
\* a List whose repeated request was answered 401 too, with a body that could
\* be read, returns Unauthorized.
C15_PageRetry ==
    Listing =>
        /\ reg.pc = "retry" =>
               /\ Len(reg.urls) >= 2
               /\ Last(reg.urls) = reg.urls[Len(reg.urls) - 1]
               /\ reg.subscriptions = Concatenation(reg.pages)
        /\ ( /\ Finished /\ Len(reg.answers) >= 2
             /\ reg.result # InternalError.err
             /\ Last(reg.answers) = 401
             /\ reg.answers[Len(reg.answers) - 1] = 401 )
               => reg.result = UnauthorizedError.err

=============================================================================
